---------------------------- MODULE Spec2Model ----------------------------
(***************************************************************************)
(* Behavioural model of the interaction hooks of the component library:    *)
(*   - TypingAnimation (react/tailwind-system/animations/TypingAnimation)  *)
(*   - AnimatedCounter (react/tailwind-system/animations/AnimatedCounter)  *)
(*   - ThemeProvider / useTheme (react/shared/hooks/use-theme)             *)
(*   - useTilt (react/shared/hooks/use-tilt)                               *)
(*   - ProtectedRoute, ErrorBoundary (react/css-variables-system/          *)
(*     specialized) and the mobile menu of Header                          *)
(*                                                                         *)
(* React semantics assumed are those of the documented platform, React 18  *)
(* with a concurrent root (react/README.md:27): state updates made in one  *)
(* timer, observer or animation-frame callback are batched into a single   *)
(* render; effects (useEffect) are passive, i.e. flushed after the commit  *)
(* and at the latest before the next render of the root; the cleanup an    *)
(* effect returned runs before its next run and at unmount; updates to an  *)
(* unmounted component are dropped.                                        *)
(***************************************************************************)
EXTENDS Integers, Sequences, FiniteSets, TLC

(***************************************************************************)
(* Bounds of the model.                                                    *)
(***************************************************************************)
MaxTexts == 2
MaxLen == 2
\* AnimatedCounter: props are multiples of 1/Scale with |end| <= MaxEnd,
\* durations are 1..MaxDuration ms, the clock runs to MaxNow ms, and at
\* most MaxLoops animation loops and MaxEntries observer entries are kept.
Scale == 2
MaxEnd == 2
MaxDuration == 3
MaxNow == 4
MaxLoops == 2
MaxEntries == 2

Chars == {"a", "b"}

Min(a, b) == IF a < b THEN a ELSE b
Max(a, b) == IF a > b THEN a ELSE b

Strings == UNION {[1..n -> Chars] : n \in 0..MaxLen}
TextLists == UNION {[1..n -> Strings] : n \in 0..MaxTexts}

\* The value JavaScript yields for an out-of-range array read: texts[i] of
\* an index that is not in the array.  It is no string.
Undefined == <<"undefined">>

\* element.style before the hook has written anything: no inline transform,
\* transition or glare property.
UnsetStyle ==
  [transform |-> <<>>, transition |-> <<>>, glareX |-> <<>>, glareY |-> <<>>]

VARIABLES
  \* ---- TypingAnimation ------------------------------------------------
  texts,             \* the texts prop
  currentTextIndex,  \* useState(0)
  currentText,       \* useState('')
  isDeleting,        \* useState(false)
  isPaused,          \* useState(false)
  timers,            \* pending setTimeout timers, each with its closure
  cleanup,           \* handles cleared by the cleanup the last effect returned
  effectPending,     \* a committed render whose effect has not run yet
  mounted,           \* the component is mounted
  threw,             \* a timer callback threw (uncaught TypeError)
  \* ---- AnimatedCounter ------------------------------------------------
  end,               \* the end prop, in units of 1/Scale
  duration,          \* the duration prop, ms
  count,             \* useState(0): the committed (displayed) count, 1/Scale
  hasAnimated,       \* useState(false), committed
  queuedCount,       \* setCount updates not rendered yet (the last one wins)
  queuedHasAnimated, \* a setHasAnimated(true) update not rendered yet
  observer,          \* the connected IntersectionObserver with its closure
  frames,            \* updateCounter callbacks requested for the next frame
  now,               \* Date.now(), ms
  counterEffectPending, \* a committed render whose effect has not run yet
  counterMounted,    \* the component is mounted
  finished,          \* some loop ran its last frame (lines 105-107)
  animations,        \* number of animateCounter calls so far
  signals,           \* entries delivered so far: "none", "hidden" (only
                     \* non-intersecting ones) or "visible"
  \* ---- ThemeProvider / useTheme ---------------------------------------
  stored,            \* localStorage item 'theme': <<>> (absent) or <<value>>
  storageAccess,     \* "ok", "readonly" (setItem throws) or "denied"
                     \* (reading and writing throw)
  prefersDark,       \* matchMedia('(prefers-color-scheme: dark)').matches
  theme,             \* useState('light'), committed
  themeMounted,      \* the provider's useState(false) `mounted`, committed
  queuedTheme,       \* setThemeState updates not rendered yet (last wins)
  queuedMounted,     \* a setMounted(true) update not rendered yet
  rootDark,          \* document.documentElement has the class 'dark'
  themeEffectPending, \* the mount effect has not run yet
  provider,          \* "absent" (no ThemeProvider above the consumer),
                     \* "present" or "crashed" (its effect threw)
  themeThrew,        \* an exception left the effect or setTheme/toggleTheme
  observed,          \* what useTheme gave the consumer in its last render
  mutated,           \* setTheme/toggleTheme was called since the page load
  writer,            \* who wrote `stored`: "page" (this provider's
                     \* setTheme) or "other"
  toggleRun,         \* toggleTheme calls in succession so far (0..2)
  toggleOrigin,      \* the theme before the first call of that run
  \* ---- useTilt ---------------------------------------------------------
  tiltOptions,       \* the options of the last render: max, scale, glare
  element,           \* ref.current is an element (not null)
  prefersReducedMotion, \* matchMedia('(prefers-reduced-motion: reduce)')
  listeners,         \* listeners attached to the element, with closures
  tiltCleanup,       \* listeners the cleanup of the last effect run removes
  style,             \* element.style: transform, transition, --glare-x/y
  tiltEffectPending, \* a committed render whose effect has not run yet
  tiltMounted,       \* the component using the hook is mounted
  lastEvent,         \* the last pointer event dispatched at the element
  pointer,           \* the last event, if it was a mousemove the hook
                     \* handled: relative offsets from the centre and the
                     \* max of the handler; else <<>>
  \* ---- ProtectedRoute --------------------------------------------------
  isAuthenticated,   \* prop
  isLoading,         \* prop
  redirectPath,      \* prop
  routeType,         \* prop `type`
  location,          \* window.location.href
  rendered,          \* what the last render returned
  \* ---- Header (mobile menu) --------------------------------------------
  isMobileMenuOpen,  \* useState(false)
  isScrolled,        \* useState(false)
  escapeListeners,   \* keydown listeners attached to document (closures)
  tabListeners,      \* keydown listeners attached to the menu (focus trap)
  scrollListeners,   \* scroll listeners attached to window
  headerMounted,     \* the Header is mounted
  menuEvent,         \* the last event the Header's page received
  \* ---- ErrorBoundary ---------------------------------------------------
  hasError,          \* state.hasError
  error,             \* state.error: <<>> (undefined) or <<e>>
  errorInfo,         \* state.errorInfo
  errorId,           \* state.errorId
  copied,            \* state.copied
  copyTimers,        \* pending timers of handleCopyError
  fallback,          \* the fallback prop is given
  errorsCaught,      \* number of errors caught so far
  boundaryMounted,   \* the boundary is mounted
  boundaryEvent      \* the last thing that happened to the boundary

typingVars == <<texts, currentTextIndex, currentText, isDeleting, isPaused,
                timers, cleanup, effectPending, mounted, threw>>

counterVars == <<end, duration, count, hasAnimated, queuedCount,
                 queuedHasAnimated, observer, frames, now,
                 counterEffectPending, counterMounted, finished, animations,
                 signals>>

themeVars == <<stored, storageAccess, prefersDark, theme, themeMounted,
               queuedTheme, queuedMounted, rootDark, themeEffectPending,
               provider, themeThrew, observed, mutated, writer, toggleRun,
               toggleOrigin>>

tiltVars == <<tiltOptions, element, prefersReducedMotion, listeners,
              tiltCleanup, style, tiltEffectPending, tiltMounted, lastEvent,
              pointer>>

routeVars == <<isAuthenticated, isLoading, redirectPath, routeType, location,
               rendered>>

menuVars == <<isMobileMenuOpen, isScrolled, escapeListeners, tabListeners,
              scrollListeners, headerMounted, menuEvent>>

boundaryVars == <<hasError, error, errorInfo, errorId, copied, copyTimers,
                  fallback, errorsCaught, boundaryMounted, boundaryEvent>>

pageVars == <<routeVars, menuVars, boundaryVars>>

vars == <<typingVars, counterVars, themeVars, tiltVars, pageVars>>

(***************************************************************************)
(* JavaScript helpers.                                                     *)
(***************************************************************************)
\* s.slice(0, e): a negative e counts from the end; both ends are clamped.
Slice(s, e) ==
  LET stop == IF e < 0 THEN Max(Len(s) + e, 0) ELSE Min(e, Len(s))
  IN SubSeq(s, 1, stop)

IsPrefix(p, s) == Len(p) <= Len(s) /\ SubSeq(s, 1, Len(p)) = p

(***************************************************************************)
(* The component's hooks as one record, so that the effect and the timer   *)
(* callbacks are functions of it.                                          *)
(***************************************************************************)
Hooks ==
  [currentTextIndex |-> currentTextIndex, currentText |-> currentText,
   isDeleting |-> isDeleting, isPaused |-> isPaused,
   timers |-> timers, cleanup |-> cleanup]

\* texts[currentTextIndex] (line 82); currentTextIndex is 0-based.
CurrentFullText(c) ==
  IF c.currentTextIndex + 1 \in DOMAIN texts
    THEN texts[c.currentTextIndex + 1]
    ELSE Undefined

\* A handle setTimeout has not handed out to a pending timer.
FreshHandle(ts) ==
  CHOOSE h \in 0..Len(ts) :
    /\ \A i \in 1..Len(ts) : ts[i].id # h
    /\ \A g \in 0..(h - 1) : \E i \in 1..Len(ts) : ts[i].id = g

\* Mutant: the effect schedules the timer and returns no cleanup for it.
SetTimeoutNoCleanup(c, kind) ==
  [c EXCEPT !.timers = Append(@, [id |-> FreshHandle(c.timers), kind |-> kind,
                                   text |-> c.currentText,
                                   full |-> CurrentFullText(c)])]

\* setTimeout(callback, delay): the callback's closure holds the
\* currentText and currentFullText of the render that scheduled it.
SetTimeout(c, kind) ==
  LET h == FreshHandle(c.timers)
  IN [c EXCEPT !.timers = Append(@, [id |-> h, kind |-> kind,
                                      text |-> c.currentText,
                                      full |-> CurrentFullText(c)]),
               !.cleanup = {h}]

\* clearTimeout(handle) for the handles of a cleanup function.
ClearTimeout(ts, hs) == SelectSeq(ts, LAMBDA t : t.id \notin hs)

\* A timer that fires is no longer pending.
Fired(ts, t) == SelectSeq(ts, LAMBDA u : u.id # t.id)

\* Mutant: the cleanup forgets to clear the timer.
RunCleanupForgets(c) == [c EXCEPT !.cleanup = {}]

\* The cleanup the previous effect run returned (lines 90, 98, 112), run
\* before the next effect run and at unmount.
RunCleanup(c) ==
  [c EXCEPT !.timers = ClearTimeout(c.timers, c.cleanup), !.cleanup = {}]

\* Mutant: the index is advanced without wrapping.
NextIndexNoWrap(prevIndex) == prevIndex + 1

\* (prevIndex) => (prevIndex + 1) % texts.length (line 118)
NextIndex(prevIndex) == (prevIndex + 1) % Len(texts)

\* The effect body, lines 82-119, after the previous cleanup.
EffectBody(c) ==
  LET currentFullText == CurrentFullText(c) IN
  IF c.isPaused
    THEN SetTimeout(c, "pause")                                \* 85-91
  ELSE IF ~c.isDeleting /\ c.currentText # currentFullText
    THEN SetTimeout(c, "type")                                 \* 94-99
  ELSE IF ~c.isDeleting /\ c.currentText = currentFullText
    THEN [c EXCEPT !.isPaused = TRUE]                          \* 102-105
  ELSE IF c.isDeleting /\ c.currentText # <<>>
    THEN SetTimeout(c, "delete")                               \* 108-113
  ELSE [c EXCEPT !.isDeleting = FALSE,                         \* 116-119
                 !.currentTextIndex = NextIndex(@)]

\* One run of the effect: cleanup of the previous run, then the body.
Effect(c) == EffectBody(RunCleanup(c))

\* React flushes the passive effects of the last commit before it renders
\* again.
FlushPassiveEffects(c) == IF effectPending THEN Effect(c) ELSE c

StateOf(c) == <<c.currentTextIndex, c.currentText, c.isDeleting, c.isPaused>>

\* A timer callback throws when its closure's currentFullText is undefined
\* (undefined.slice, line 96).
CallbackThrows(t) == t.kind = "type" /\ t.full = Undefined

\* Mutants of the pause callback: one of its two updates is missing.
PauseCallbackKeepsPaused(c) == [c EXCEPT !.isDeleting = TRUE]
PauseCallbackNoDelete(c) == [c EXCEPT !.isPaused = FALSE]

\* Mutant: the typing callback slices to the current length (no + 1).
TypeCallbackStuck(c, t) ==
  [c EXCEPT !.currentText = Slice(t.full, Len(t.text))]

\* Mutant: the deleting callback drops the first character, slice(1).
DeleteCallbackFromFront(c, t) ==
  [c EXCEPT !.currentText = SubSeq(t.text, 2, Len(t.text))]

\* The state updates a timer callback makes, applied to hooks c.
\* setIsPaused(false); setIsDeleting(true) (lines 87-88), one batch.
PauseCallback(c) == [c EXCEPT !.isPaused = FALSE, !.isDeleting = TRUE]

\* setCurrentText(currentFullText.slice(0, currentText.length + 1)) (96)
TypeCallback(c, t) ==
  [c EXCEPT !.currentText = Slice(t.full, Len(t.text) + 1)]

\* setCurrentText(currentText.slice(0, -1)) (line 110)
DeleteCallback(c, t) ==
  [c EXCEPT !.currentText = Slice(t.text, -1)]

Callback(c, t) ==
  CASE t.kind = "pause"  -> PauseCallback(c)
    [] t.kind = "type"   -> TypeCallback(c, t)
    [] t.kind = "delete" -> DeleteCallback(c, t)

Commit(c) ==
  /\ currentTextIndex' = c.currentTextIndex
  /\ currentText' = c.currentText
  /\ isDeleting' = c.isDeleting
  /\ isPaused' = c.isPaused
  /\ timers' = c.timers
  /\ cleanup' = c.cleanup

(***************************************************************************)
(* Initial state: the first render has committed, its effect is pending.   *)
(* The page holds this component alone.                                    *)
(***************************************************************************)
TypingInit ==
  /\ texts \in TextLists
  /\ currentTextIndex = 0
  /\ currentText = <<>>
  /\ isDeleting = FALSE
  /\ isPaused = FALSE
  /\ timers = <<>>
  /\ cleanup = {}
  /\ effectPending = TRUE
  /\ mounted = TRUE
  /\ threw = FALSE
  \* no AnimatedCounter on the page
  /\ end = 0 /\ duration = 1 /\ count = 0 /\ hasAnimated = FALSE
  /\ queuedCount = <<>> /\ queuedHasAnimated = FALSE /\ observer = <<>>
  /\ frames = <<>> /\ now = 0 /\ counterEffectPending = FALSE
  /\ counterMounted = FALSE /\ finished = FALSE /\ animations = 0
  /\ signals = "none"
  \* no ThemeProvider and no theme consumer on the page
  /\ stored = <<>> /\ storageAccess = "ok" /\ prefersDark = FALSE
  /\ theme = "light" /\ themeMounted = FALSE /\ queuedTheme = <<>>
  /\ queuedMounted = FALSE /\ rootDark = FALSE
  /\ themeEffectPending = FALSE /\ provider = "absent"
  /\ themeThrew = FALSE /\ observed = <<>> /\ mutated = FALSE
  /\ writer = "other" /\ toggleRun = 0 /\ toggleOrigin = "light"
  \* no element with useTilt on the page
  /\ tiltOptions = [max |-> 0, scale |-> 100, glare |-> FALSE]
  /\ element = FALSE /\ prefersReducedMotion = FALSE /\ listeners = <<>>
  /\ tiltCleanup = <<>> /\ style = UnsetStyle /\ tiltEffectPending = FALSE
  /\ tiltMounted = FALSE /\ lastEvent = "none" /\ pointer = <<>>
  \* no ProtectedRoute, Header or ErrorBoundary on the page
  /\ isAuthenticated = FALSE /\ isLoading = FALSE /\ redirectPath = "/"
  /\ routeType = "admin" /\ location = "/" /\ rendered = "nothing"
  /\ isMobileMenuOpen = FALSE /\ isScrolled = FALSE
  /\ escapeListeners = <<>> /\ tabListeners = <<>>
  /\ scrollListeners = <<>> /\ headerMounted = FALSE
  /\ menuEvent = [kind |-> "none", wasOpen |-> FALSE]
  /\ hasError = FALSE /\ error = <<>> /\ errorInfo = <<>>
  /\ errorId = <<>> /\ copied = FALSE /\ copyTimers = 0
  /\ fallback = FALSE /\ errorsCaught = 0 /\ boundaryMounted = FALSE
  /\ boundaryEvent = <<"none">>

(***************************************************************************)
(* Actions of TypingAnimation.                                             *)
(***************************************************************************)
\* The effect of the last commit runs (lines 81-120).  A setState in the
\* body (lines 103, 117-118) commits a new render, whose effect is pending.
RunEffect ==
  /\ mounted /\ effectPending
  /\ LET c == Effect(Hooks)
     IN /\ Commit(c)
        /\ effectPending' = (StateOf(c) # StateOf(Hooks))
  /\ UNCHANGED <<texts, mounted, threw>>
  /\ UNCHANGED <<counterVars, themeVars, tiltVars, pageVars>>

\* A pending timer fires and its callback runs.
TimerFires ==
  /\ UNCHANGED <<counterVars, themeVars, tiltVars, pageVars>>
  /\ \E i \in 1..Len(timers) :
    LET t == timers[i]
        fired == [Hooks EXCEPT !.timers = Fired(@, t)]
    IN IF CallbackThrows(t)
         THEN /\ threw' = TRUE
              /\ timers' = fired.timers
              /\ UNCHANGED <<texts, currentTextIndex, currentText, isDeleting,
                             isPaused, cleanup, effectPending, mounted>>
       ELSE IF ~mounted \/ StateOf(Callback(fired, t)) = StateOf(fired)
         THEN \* update dropped (unmounted) or bail-out (same state)
              /\ timers' = fired.timers
              /\ UNCHANGED <<texts, currentTextIndex, currentText, isDeleting,
                             isPaused, cleanup, effectPending, mounted, threw>>
       ELSE \* render: pending passive effects first, then the update
            /\ Commit(Callback(FlushPassiveEffects(fired), t))
            /\ effectPending' = TRUE
            /\ UNCHANGED <<texts, mounted, threw>>

\* The parent renders again and passes an equal texts array of a new
\* identity (an inline array literal), so the effect's dependencies change.
ParentRerender ==
  /\ mounted
  /\ Commit(FlushPassiveEffects(Hooks))
  /\ effectPending' = TRUE
  /\ UNCHANGED <<texts, mounted, threw>>
  /\ UNCHANGED <<counterVars, themeVars, tiltVars, pageVars>>

\* The component unmounts: the last effect's cleanup runs.
Unmount ==
  /\ mounted
  /\ mounted' = FALSE
  /\ Commit(RunCleanup(Hooks))
  /\ effectPending' = FALSE
  /\ UNCHANGED <<texts, threw>>
  /\ UNCHANGED <<counterVars, themeVars, tiltVars, pageVars>>

TypingNext == RunEffect \/ TimerFires \/ ParentRerender \/ Unmount


(***************************************************************************)
(* AnimatedCounter.                                                        *)
(***************************************************************************)
Ends == (0 - MaxEnd * Scale)..(MaxEnd * Scale)
Durations == 1..MaxDuration

\* Math.floor of x / d (d > 0) for a number kept in units of 1/Scale.
Floor(x, d) == (x \div (d * Scale)) * Scale

\* easeOutQuad(progress) * end (lines 94-100) as the fraction
\* numerator / denominator, progress = min(elapsed / duration, 1).
EasedTimesEnd(elapsed) ==
  IF elapsed >= duration
    THEN [num |-> end, den |-> 1]
    ELSE [num |-> elapsed * (2 * duration - elapsed) * end,
          den |-> duration * duration]

\* const currentCount = Math.floor(easedProgress * end) (line 100)
CurrentCount(startTime) ==
  LET x == EasedTimesEnd(now - startTime) IN Floor(x.num, x.den)

\* setCount(v): queued for the next render; dropped once unmounted.
SetCount(q, v) == IF counterMounted THEN <<v>> ELSE q

\* The last frame of a loop also snaps the count to end (lines 105-107).
LastFrame(q) == SetCount(q, end)

\* updateCounter (lines 92-108) of the loop started at f.startTime, on the
\* frame state a = [queued, frames, finished].
UpdateCounter(f, a) ==
  LET endTime == f.startTime + duration
      shown == SetCount(a.queued, CurrentCount(f.startTime))        \* 101
  IN IF now < endTime
       THEN [a EXCEPT !.queued = shown,
                      !.frames = Append(@, f)]                       \* 104
       ELSE [a EXCEPT !.queued = LastFrame(shown),                   \* 106
                      !.finished = TRUE]

RECURSIVE RunFrameCallbacks(_, _)
RunFrameCallbacks(cbs, a) ==
  IF cbs = <<>> THEN a
  ELSE RunFrameCallbacks(Tail(cbs), UpdateCounter(Head(cbs), a))

\* animateCounter (lines 88-111): a new loop starting now.
AnimateCounter(fs) == Append(fs, [startTime |-> now])

\* Mutant of Triggers: entry.isIntersecting is not consulted.
TriggersAlways(entry, o) == ~o.hasAnimated

\* Whether the observer callback starts the animation for an entry
\* (line 74); hasAnimated is the value its closure captured.
Triggers(entry, o) == entry /\ ~o.hasAnimated

Intersecting(entries, o) ==
  Cardinality({i \in DOMAIN entries : Triggers(entries[i], o)})

\* What the element's visibility history looks like after the entries of
\* one callback: "visible" once any delivered entry was intersecting.
Signalled(entries) ==
  IF signals = "visible" \/ \E i \in DOMAIN entries : entries[i]
    THEN "visible" ELSE "hidden"

RECURSIVE AnimateTimes(_, _)
AnimateTimes(n, fs) ==
  IF n = 0 THEN fs ELSE AnimateTimes(n - 1, AnimateCounter(fs))

\* The effect (lines 68-86) after its previous cleanup (observer.disconnect):
\* a new observer is created unless hasAnimated.
ObserverAfterEffect ==
  IF hasAnimated THEN <<>> ELSE <<[hasAnimated |-> hasAnimated]>>

CounterInit ==
  /\ end \in Ends
  /\ duration \in Durations
  /\ count = 0
  /\ hasAnimated = FALSE
  /\ queuedCount = <<>>
  /\ queuedHasAnimated = FALSE
  /\ observer = <<>>
  /\ frames = <<>>
  /\ now = 0
  /\ counterEffectPending = TRUE
  /\ counterMounted = TRUE
  /\ finished = FALSE
  /\ animations = 0
  /\ signals = "none"
  \* no TypingAnimation on the page
  /\ texts = <<>> /\ currentTextIndex = 0 /\ currentText = <<>>
  /\ isDeleting = FALSE /\ isPaused = FALSE /\ timers = <<>>
  /\ cleanup = {} /\ effectPending = FALSE /\ mounted = FALSE
  /\ threw = FALSE
  \* no ThemeProvider and no theme consumer on the page
  /\ stored = <<>> /\ storageAccess = "ok" /\ prefersDark = FALSE
  /\ theme = "light" /\ themeMounted = FALSE /\ queuedTheme = <<>>
  /\ queuedMounted = FALSE /\ rootDark = FALSE
  /\ themeEffectPending = FALSE /\ provider = "absent"
  /\ themeThrew = FALSE /\ observed = <<>> /\ mutated = FALSE
  /\ writer = "other" /\ toggleRun = 0 /\ toggleOrigin = "light"
  \* no element with useTilt on the page
  /\ tiltOptions = [max |-> 0, scale |-> 100, glare |-> FALSE]
  /\ element = FALSE /\ prefersReducedMotion = FALSE /\ listeners = <<>>
  /\ tiltCleanup = <<>> /\ style = UnsetStyle /\ tiltEffectPending = FALSE
  /\ tiltMounted = FALSE /\ lastEvent = "none" /\ pointer = <<>>
  \* no ProtectedRoute, Header or ErrorBoundary on the page
  /\ isAuthenticated = FALSE /\ isLoading = FALSE /\ redirectPath = "/"
  /\ routeType = "admin" /\ location = "/" /\ rendered = "nothing"
  /\ isMobileMenuOpen = FALSE /\ isScrolled = FALSE
  /\ escapeListeners = <<>> /\ tabListeners = <<>>
  /\ scrollListeners = <<>> /\ headerMounted = FALSE
  /\ menuEvent = [kind |-> "none", wasOpen |-> FALSE]
  /\ hasError = FALSE /\ error = <<>> /\ errorInfo = <<>>
  /\ errorId = <<>> /\ copied = FALSE /\ copyTimers = 0
  /\ fallback = FALSE /\ errorsCaught = 0 /\ boundaryMounted = FALSE
  /\ boundaryEvent = <<"none">>

\* The effect of the last commit runs (lines 68-86).
CounterEffect ==
  /\ counterMounted /\ counterEffectPending
  /\ observer' = ObserverAfterEffect
  /\ counterEffectPending' = FALSE
  /\ UNCHANGED <<end, duration, count, hasAnimated, queuedCount,
                 queuedHasAnimated, frames, now, counterMounted, finished,
                 animations, signals>>
  /\ UNCHANGED <<typingVars, themeVars, tiltVars, pageVars>>

\* The browser delivers intersection entries to the connected observer
\* (lines 72-79).
ObserverCallback ==
  /\ observer # <<>>
  /\ \E n \in 1..MaxEntries : \E entries \in [1..n -> BOOLEAN] :
       LET k == Intersecting(entries, observer[1]) IN
       /\ animations + k <= MaxLoops
       /\ queuedHasAnimated' = (queuedHasAnimated \/ k > 0)        \* 75
       /\ frames' = AnimateTimes(k, frames)                         \* 76
       /\ animations' = animations + k
       /\ signals' = Signalled(entries)
  /\ UNCHANGED <<end, duration, count, hasAnimated, queuedCount, observer,
                 now, counterEffectPending, counterMounted, finished>>
  /\ UNCHANGED <<typingVars, themeVars, tiltVars, pageVars>>

\* React renders the queued updates; the pending effect is flushed first.
CounterRender ==
  /\ counterMounted
  /\ queuedCount # <<>> \/ queuedHasAnimated
  /\ count' = IF queuedCount # <<>> THEN queuedCount[1] ELSE count
  /\ hasAnimated' = (hasAnimated \/ queuedHasAnimated)
  /\ queuedCount' = <<>>
  /\ queuedHasAnimated' = FALSE
  /\ observer' = IF counterEffectPending THEN ObserverAfterEffect ELSE observer
  /\ counterEffectPending' = (hasAnimated' # hasAnimated)
  /\ UNCHANGED <<end, duration, frames, now, counterMounted, finished,
                 animations, signals>>
  /\ UNCHANGED <<typingVars, themeVars, tiltVars, pageVars>>

\* The clock advances by one millisecond.
Tick ==
  /\ now < MaxNow
  /\ now' = now + 1
  /\ UNCHANGED <<end, duration, count, hasAnimated, queuedCount,
                 queuedHasAnimated, observer, frames, counterEffectPending,
                 counterMounted, finished, animations, signals>>
  /\ UNCHANGED <<typingVars, themeVars, tiltVars, pageVars>>

\* An animation frame: every requested updateCounter callback runs, in the
\* order of the requests.
AnimationFrame ==
  /\ frames # <<>>
  /\ LET a == RunFrameCallbacks(frames, [queued |-> queuedCount,
                                         frames |-> <<>>,
                                         finished |-> finished])
     IN /\ queuedCount' = a.queued
        /\ frames' = a.frames
        /\ finished' = a.finished
  /\ UNCHANGED <<end, duration, count, hasAnimated, queuedHasAnimated,
                 observer, now, counterEffectPending, counterMounted,
                 animations, signals>>
  /\ UNCHANGED <<typingVars, themeVars, tiltVars, pageVars>>

\* The component unmounts: the effect's cleanup disconnects the observer;
\* queued updates are dropped.  Requested animation frames are not cancelled.
CounterUnmount ==
  /\ counterMounted
  /\ counterMounted' = FALSE
  /\ observer' = <<>>
  /\ queuedCount' = <<>>
  /\ queuedHasAnimated' = FALSE
  /\ counterEffectPending' = FALSE
  /\ UNCHANGED <<end, duration, count, hasAnimated, frames, now, finished,
                 animations, signals>>
  /\ UNCHANGED <<typingVars, themeVars, tiltVars, pageVars>>

CounterNext ==
  \/ CounterEffect \/ ObserverCallback \/ CounterRender \/ Tick
  \/ AnimationFrame \/ CounterUnmount

(***************************************************************************)
(* ThemeProvider and useTheme (react/shared/hooks/use-theme.tsx).          *)
(*                                                                         *)
(* The page holds one ThemeProvider with one consumer below it, or a       *)
(* consumer with no provider above it.  localStorage is shared with other  *)
(* scripts of the origin, so the item 'theme' may hold any string at page  *)
(* load; the browser may deny storage (every access throws) or refuse      *)
(* writes (setItem throws).                                                *)
(***************************************************************************)
Themes == {"light", "dark"}

\* Strings other scripts may have left under the key: the two themes, the
\* empty string and a string that is no theme.
StoredValues == Themes \cup {"", "system"}

\* JavaScript truthiness of a string (line 44).
Truthy(str) == str # ""

\* applyTheme (lines 56-63): whether the root has the class 'dark' afterwards.
ApplyTheme(newTheme) == newTheme = "dark"

\* Mutant of InitialTheme: the system preference is consulted first.
InitialThemeSystemFirst ==
  IF prefersDark THEN "dark"
  ELSE IF stored # <<>> /\ Truthy(stored[1]) THEN stored[1] ELSE "light"

\* The theme the mount effect resolves (lines 42-53).
InitialTheme ==
  IF stored # <<>> /\ Truthy(stored[1])
    THEN stored[1]                                              \* 44-46
    ELSE IF prefersDark THEN "dark" ELSE "light"                \* 49-50

\* Mutant of ContextValue: the children render before `mounted` is true.
ContextValueUngated ==
  IF provider = "present" THEN <<[theme |-> theme]>> ELSE <<>>

\* The value of ThemeContext a consumer reads: undefined (<<>>) with no
\* provider or while the provider renders null (lines 77-79), else the value
\* of the last commit (line 82); its toggleTheme closes over the same theme.
ContextValue ==
  IF provider = "present" /\ themeMounted THEN <<[theme |-> theme]>> ELSE <<>>

ThemeError == [error |-> "useTheme must be used within a ThemeProvider"]

\* Mutant of UseTheme: a default value instead of the throw.
UseThemeDefault(context) ==
  IF context = <<>> THEN [theme |-> "light"] ELSE context[1]

\* useTheme (lines 110-116): the context value, or the error it throws.
UseTheme(context) == IF context = <<>> THEN ThemeError ELSE context[1]

\* The theme last set in memory, rendered or not.
LatestTheme == IF queuedTheme # <<>> THEN queuedTheme[1] ELSE theme

ThemeInit ==
  /\ stored \in {<<>>} \cup {<<v>> : v \in StoredValues}
  /\ storageAccess \in {"ok", "readonly", "denied"}
  /\ prefersDark \in BOOLEAN
  /\ provider \in {"absent", "present"}
  /\ theme = "light"
  /\ themeMounted = FALSE
  /\ queuedTheme = <<>>
  /\ queuedMounted = FALSE
  /\ rootDark = FALSE
  /\ themeEffectPending = (provider = "present")
  /\ themeThrew = FALSE
  /\ observed = <<>>
  /\ mutated = FALSE
  /\ writer = "other"
  /\ toggleRun = 0
  /\ toggleOrigin = "light"
  \* no TypingAnimation on the page
  /\ texts = <<>> /\ currentTextIndex = 0 /\ currentText = <<>>
  /\ isDeleting = FALSE /\ isPaused = FALSE /\ timers = <<>>
  /\ cleanup = {} /\ effectPending = FALSE /\ mounted = FALSE
  /\ threw = FALSE
  \* no AnimatedCounter on the page
  /\ end = 0 /\ duration = 1 /\ count = 0 /\ hasAnimated = FALSE
  /\ queuedCount = <<>> /\ queuedHasAnimated = FALSE /\ observer = <<>>
  /\ frames = <<>> /\ now = 0 /\ counterEffectPending = FALSE
  /\ counterMounted = FALSE /\ finished = FALSE /\ animations = 0
  /\ signals = "none"
  \* no element with useTilt on the page
  /\ tiltOptions = [max |-> 0, scale |-> 100, glare |-> FALSE]
  /\ element = FALSE /\ prefersReducedMotion = FALSE /\ listeners = <<>>
  /\ tiltCleanup = <<>> /\ style = UnsetStyle /\ tiltEffectPending = FALSE
  /\ tiltMounted = FALSE /\ lastEvent = "none" /\ pointer = <<>>
  \* no ProtectedRoute, Header or ErrorBoundary on the page
  /\ isAuthenticated = FALSE /\ isLoading = FALSE /\ redirectPath = "/"
  /\ routeType = "admin" /\ location = "/" /\ rendered = "nothing"
  /\ isMobileMenuOpen = FALSE /\ isScrolled = FALSE
  /\ escapeListeners = <<>> /\ tabListeners = <<>>
  /\ scrollListeners = <<>> /\ headerMounted = FALSE
  /\ menuEvent = [kind |-> "none", wasOpen |-> FALSE]
  /\ hasError = FALSE /\ error = <<>> /\ errorInfo = <<>>
  /\ errorId = <<>> /\ copied = FALSE /\ copyTimers = 0
  /\ fallback = FALSE /\ errorsCaught = 0 /\ boundaryMounted = FALSE
  /\ boundaryEvent = <<"none">>

\* Mutant of ThemeEffect: the resolved theme is also persisted.
ThemeEffectPersists ==
  /\ provider = "present" /\ themeEffectPending
  /\ themeEffectPending' = FALSE
  /\ storageAccess # "denied"
  /\ queuedMounted' = TRUE
  /\ queuedTheme' = <<InitialTheme>>
  /\ rootDark' = ApplyTheme(InitialTheme)
  /\ stored' = <<InitialTheme>>
  /\ UNCHANGED <<themeThrew, provider, storageAccess, prefersDark, theme,
                 themeMounted, observed, mutated, writer, toggleRun,
                 toggleOrigin>>
  /\ UNCHANGED <<typingVars, counterVars, tiltVars, pageVars>>

\* The mount effect (lines 39-54).  With storage denied, line 42 throws
\* after line 40: the error leaves the effect and React removes the tree
\* the provider is in.
ThemeEffect ==
  /\ provider = "present" /\ themeEffectPending
  /\ themeEffectPending' = FALSE
  /\ IF storageAccess = "denied"
       THEN /\ themeThrew' = TRUE
            /\ provider' = "crashed"
            /\ UNCHANGED <<queuedMounted, queuedTheme, rootDark>>
       ELSE /\ queuedMounted' = TRUE                              \* 40
            /\ queuedTheme' = <<InitialTheme>>                    \* 45, 51
            /\ rootDark' = ApplyTheme(InitialTheme)               \* 46, 52
            /\ UNCHANGED <<themeThrew, provider>>
  /\ UNCHANGED <<stored, storageAccess, prefersDark, theme, themeMounted,
                 observed, mutated, writer, toggleRun, toggleOrigin>>
  /\ UNCHANGED <<typingVars, counterVars, tiltVars, pageVars>>

\* React renders the queued updates (lines 36-37, 77-85); once mounted is
\* true the children render in the same commit and the consumer calls
\* useTheme.
ThemeRender ==
  /\ provider = "present"
  /\ queuedTheme # <<>> \/ queuedMounted
  /\ theme' = LatestTheme
  /\ themeMounted' = (themeMounted \/ queuedMounted)
  /\ queuedTheme' = <<>>
  /\ queuedMounted' = FALSE
  /\ UNCHANGED <<stored, storageAccess, prefersDark, rootDark,
                 themeEffectPending, provider, themeThrew, mutated, writer,
                 toggleRun, toggleOrigin>>
  /\ observed' = IF themeMounted' THEN <<UseTheme(ContextValue')>>
                                  ELSE observed
  /\ UNCHANGED <<typingVars, counterVars, tiltVars, pageVars>>

\* setTheme (lines 65-69).  When setItem throws (line 67), line 68 does
\* not run and the error leaves setTheme.
SetTheme(newTheme) ==
  /\ queuedTheme' = <<newTheme>>                                  \* 66
  /\ IF storageAccess = "ok"
       THEN /\ stored' = <<newTheme>>                             \* 67
            /\ writer' = "page"
            /\ rootDark' = ApplyTheme(newTheme)                   \* 68
            /\ UNCHANGED themeThrew
       ELSE /\ themeThrew' = TRUE
            /\ UNCHANGED <<stored, writer, rootDark>>

\* The argument toggleTheme passes to setTheme (line 72); context is the
\* value the caller took toggleTheme from.
Negation(context) == IF context.theme = "light" THEN "dark" ELSE "light"

\* A consumer calls setTheme of the context value it holds.
CallSetTheme ==
  /\ ContextValue # <<>>
  /\ \E newTheme \in Themes : SetTheme(newTheme)
  /\ mutated' = TRUE
  /\ toggleRun' = 0
  /\ UNCHANGED <<storageAccess, prefersDark, theme, themeMounted,
                 queuedMounted, themeEffectPending, provider, observed,
                 toggleOrigin>>
  /\ UNCHANGED <<typingVars, counterVars, tiltVars, pageVars>>

\* A consumer calls toggleTheme of the context value it holds (lines 71-74).
CallToggleTheme ==
  /\ ContextValue # <<>>
  /\ SetTheme(Negation(ContextValue[1]))
  /\ mutated' = TRUE
  /\ IF toggleRun = 1
       THEN toggleRun' = 2 /\ UNCHANGED toggleOrigin
       ELSE /\ toggleRun' = 1
            /\ toggleOrigin' = LatestTheme
  /\ UNCHANGED <<storageAccess, prefersDark, theme, themeMounted,
                 queuedMounted, themeEffectPending, provider, observed>>
  /\ UNCHANGED <<typingVars, counterVars, tiltVars, pageVars>>

\* The consumer renders and calls useTheme (lines 110-116): under the
\* provider once it renders its children, or with no provider at all.
ConsumerRender ==
  /\ provider = "absent" \/ ContextValue # <<>>
  /\ observed' = <<UseTheme(ContextValue)>>
  /\ UNCHANGED <<stored, storageAccess, prefersDark, theme, themeMounted,
                 queuedTheme, queuedMounted, rootDark, themeEffectPending,
                 provider, themeThrew, mutated, writer, toggleRun,
                 toggleOrigin>>
  /\ UNCHANGED <<typingVars, counterVars, tiltVars, pageVars>>

\* The user changes the system color scheme; the provider does not listen.
SystemPreferenceChanges ==
  /\ prefersDark' = ~prefersDark
  /\ UNCHANGED <<stored, storageAccess, theme, themeMounted, queuedTheme,
                 queuedMounted, rootDark, themeEffectPending, provider,
                 themeThrew, observed, mutated, writer, toggleRun,
                 toggleOrigin>>
  /\ UNCHANGED <<typingVars, counterVars, tiltVars, pageVars>>

\* The page is loaded again: a fresh document and a fresh ThemeProvider
\* (lines 36-37); localStorage is kept.
Reload ==
  /\ provider # "absent"
  /\ provider' = "present"
  /\ theme' = "light"
  /\ themeMounted' = FALSE
  /\ queuedTheme' = <<>>
  /\ queuedMounted' = FALSE
  /\ rootDark' = FALSE
  /\ themeEffectPending' = TRUE
  /\ themeThrew' = FALSE
  /\ observed' = <<>>
  /\ mutated' = FALSE
  /\ toggleRun' = 0
  /\ UNCHANGED <<stored, storageAccess, prefersDark, writer, toggleOrigin>>
  /\ UNCHANGED <<typingVars, counterVars, tiltVars, pageVars>>

ThemeNext ==
  \/ ThemeEffect \/ ThemeRender \/ CallSetTheme \/ CallToggleTheme
  \/ ConsumerRender \/ SystemPreferenceChanges \/ Reload

(***************************************************************************)
(* useTilt (react/shared/hooks/use-tilt).                                  *)
(*                                                                         *)
(* Lengths are in pixels; a mousemove over the element has its offset      *)
(* inside the element's bounding rectangle, read anew at every event.      *)
(* Angles and percentages are exact rationals [num, den] in lowest terms   *)
(* with den > 0, so that equal numbers are equal values.                   *)
(* The reduced-motion preference does not change while the page is open.   *)
(***************************************************************************)
MaxTilt == 2
MaxSize == 2

\* The scale option in hundredths (1.05, 1.1) and the speed option in ms.
Scales == {105}
Speeds == {300}

TiltOptions == [max : 0..MaxTilt, scale : Scales, glare : BOOLEAN]

Abs(n) == IF n < 0 THEN 0 - n ELSE n

RECURSIVE GCD(_, _)
GCD(a, b) == IF b = 0 THEN a ELSE GCD(b, a % b)

\* The number n / d, d > 0.
Rat(n, d) ==
  LET g == GCD(Abs(n), d) IN [num |-> n \div g, den |-> d \div g]
RatEq(a, b) == a.num * b.den = b.num * a.den
RatLeq(a, b) == a.num * b.den <= b.num * a.den

\* Mutant of RotateX: the vertical offset drives the angle directly.
RotateXDirect(y, height, max) == Rat((2 * y - height) * max, height)

\* rotateX (lines 59, 62): ((y - centerY) / centerY) * -max, with
\* centerY = height / 2.
RotateX(y, height, max) == Rat((2 * y - height) * (0 - max), height)

\* rotateY (lines 58, 63): ((x - centerX) / centerX) * max.
RotateY(x, width, max) == Rat((2 * x - width) * max, width)

\* glareX, glareY (lines 70-71): (offset / size) * 100.
Glare(offset, size) == Rat(offset * 100, size)

\* The transform of line 78.
IdentityTransform ==
  [rotateX |-> Rat(0, 1), rotateY |-> Rat(0, 1), scale |-> 100]

\* handleMouseMove (lines 54-75) of a listener with options o, for an event
\* at offset (e.x, e.y) in a rectangle e.width by e.height.
HandleMouseMove(o, st, e) ==
  LET moved == [st EXCEPT !.transform =
                  <<[rotateX |-> RotateX(e.y, e.height, o.max),
                     rotateY |-> RotateY(e.x, e.width, o.max),
                     scale |-> o.scale]>>]                         \* 66
  IN IF o.glare
       THEN [moved EXCEPT !.glareX = <<Glare(e.x, e.width)>>,      \* 72
                          !.glareY = <<Glare(e.y, e.height)>>]     \* 73
       ELSE moved

\* A handleMouseLeave that resets the glare position whatever the option.
HandleMouseLeaveResetsGlare(o, st) ==
  [st EXCEPT !.transform = <<IdentityTransform>>,
             !.glareX = <<Rat(50, 1)>>,
             !.glareY = <<Rat(50, 1)>>]

\* handleMouseLeave (lines 77-83).
HandleMouseLeave(o, st) ==
  LET reset == [st EXCEPT !.transform = <<IdentityTransform>>]     \* 78
  IN IF o.glare
       THEN [reset EXCEPT !.glareX = <<Rat(50, 1)>>,               \* 80
                          !.glareY = <<Rat(50, 1)>>]               \* 81
       ELSE reset

\* The element's listeners of one kind run in the order they were attached.
RECURSIVE Dispatch(_, _, _, _)
Dispatch(ls, kind, st, e) ==
  IF ls = <<>> THEN st
  ELSE LET l == Head(ls)
           next == IF l.kind # kind THEN st
                   ELSE IF kind = "mousemove"
                     THEN HandleMouseMove(l.options, st, e)
                     ELSE HandleMouseLeave(l.options, st)
       IN Dispatch(Tail(ls), kind, next, e)

Listening(ls, kind) == {i \in DOMAIN ls : ls[i].kind = kind}

\* removeEventListener: the first listener equal to l is gone.
RECURSIVE RemoveListener(_, _)
RemoveListener(ls, l) ==
  IF ls = <<>> THEN <<>>
  ELSE IF Head(ls) = l THEN Tail(ls)
  ELSE <<Head(ls)>> \o RemoveListener(Tail(ls), l)

\* Mutant of TiltCleanupRun: the mousemove listener is not removed.
TiltCleanupKeepsMove(ls, cs) ==
  IF cs = <<>> THEN ls ELSE RemoveListener(ls, cs[Len(cs)])

\* The cleanup an effect run returned (lines 91-94): it removes the
\* listeners cs that run attached.
RECURSIVE TiltCleanupRun(_, _)
TiltCleanupRun(ls, cs) ==
  IF cs = <<>> THEN ls
  ELSE TiltCleanupRun(RemoveListener(ls, Head(cs)), Tail(cs))

\* Mutant of Attaches: the reduced-motion preference is not consulted.
AttachesAlways(el, reduced) == el

\* Whether an effect run goes on to attach listeners (lines 47-52).
Attaches(el, reduced) == el /\ ~reduced

\* The listeners one effect run attaches (lines 88-89), closing over the
\* options of its render.
NewListeners(o) ==
  <<[kind |-> "mousemove", options |-> o],
    [kind |-> "mouseleave", options |-> o]>>

\* One run of the effect (lines 46-95) for the options o, after the
\* cleanup of the previous run.
TiltEffectRun(o, ls, cs, st) ==
  LET cleaned == TiltCleanupRun(ls, cs) IN
  IF Attaches(element, prefersReducedMotion)
    THEN [listeners |-> cleaned \o NewListeners(o),
          cleanup |-> NewListeners(o),
          style |-> [st EXCEPT !.transition = <<CHOOSE v \in Speeds : TRUE>>]]
    ELSE [listeners |-> cleaned, cleanup |-> <<>>, style |-> st]

TiltInit ==
  /\ tiltOptions \in TiltOptions
  /\ element \in BOOLEAN
  /\ prefersReducedMotion \in BOOLEAN
  /\ listeners = <<>>
  /\ tiltCleanup = <<>>
  /\ style = UnsetStyle
  /\ tiltEffectPending = TRUE
  /\ tiltMounted = TRUE
  /\ lastEvent = "none"
  /\ pointer = <<>>
  \* no TypingAnimation on the page
  /\ texts = <<>> /\ currentTextIndex = 0 /\ currentText = <<>>
  /\ isDeleting = FALSE /\ isPaused = FALSE /\ timers = <<>>
  /\ cleanup = {} /\ effectPending = FALSE /\ mounted = FALSE
  /\ threw = FALSE
  \* no AnimatedCounter on the page
  /\ end = 0 /\ duration = 1 /\ count = 0 /\ hasAnimated = FALSE
  /\ queuedCount = <<>> /\ queuedHasAnimated = FALSE /\ observer = <<>>
  /\ frames = <<>> /\ now = 0 /\ counterEffectPending = FALSE
  /\ counterMounted = FALSE /\ finished = FALSE /\ animations = 0
  /\ signals = "none"
  \* no ThemeProvider and no theme consumer on the page
  /\ stored = <<>> /\ storageAccess = "ok" /\ prefersDark = FALSE
  /\ theme = "light" /\ themeMounted = FALSE /\ queuedTheme = <<>>
  /\ queuedMounted = FALSE /\ rootDark = FALSE
  /\ themeEffectPending = FALSE /\ provider = "absent"
  /\ themeThrew = FALSE /\ observed = <<>> /\ mutated = FALSE
  /\ writer = "other" /\ toggleRun = 0 /\ toggleOrigin = "light"
  \* no ProtectedRoute, Header or ErrorBoundary on the page
  /\ isAuthenticated = FALSE /\ isLoading = FALSE /\ redirectPath = "/"
  /\ routeType = "admin" /\ location = "/" /\ rendered = "nothing"
  /\ isMobileMenuOpen = FALSE /\ isScrolled = FALSE
  /\ escapeListeners = <<>> /\ tabListeners = <<>>
  /\ scrollListeners = <<>> /\ headerMounted = FALSE
  /\ menuEvent = [kind |-> "none", wasOpen |-> FALSE]
  /\ hasError = FALSE /\ error = <<>> /\ errorInfo = <<>>
  /\ errorId = <<>> /\ copied = FALSE /\ copyTimers = 0
  /\ fallback = FALSE /\ errorsCaught = 0 /\ boundaryMounted = FALSE
  /\ boundaryEvent = <<"none">>

\* The effect of the last commit runs.
TiltEffect ==
  /\ tiltMounted /\ tiltEffectPending
  /\ LET r == TiltEffectRun(tiltOptions, listeners, tiltCleanup, style)
     IN /\ listeners' = r.listeners
        /\ tiltCleanup' = r.cleanup
        /\ style' = r.style
  /\ tiltEffectPending' = FALSE
  /\ UNCHANGED <<tiltOptions, element, prefersReducedMotion, tiltMounted,
                 lastEvent, pointer>>
  /\ UNCHANGED <<typingVars, counterVars, themeVars, pageVars>>

\* The component renders with other options (a pending effect of the last
\* commit is flushed first); the dependencies of the effect changed
\* (line 95).
TiltRerender ==
  /\ tiltMounted
  /\ \E o \in TiltOptions :
       /\ o # tiltOptions
       /\ tiltOptions' = o
  /\ LET r == IF tiltEffectPending
                THEN TiltEffectRun(tiltOptions, listeners, tiltCleanup, style)
                ELSE [listeners |-> listeners, cleanup |-> tiltCleanup,
                      style |-> style]
     IN /\ listeners' = r.listeners
        /\ tiltCleanup' = r.cleanup
        /\ style' = r.style
  /\ tiltEffectPending' = TRUE
  /\ UNCHANGED <<element, prefersReducedMotion, tiltMounted, lastEvent,
                 pointer>>
  /\ UNCHANGED <<typingVars, counterVars, themeVars, pageVars>>

\* A mousemove is dispatched at the element.
MouseMove ==
  /\ \E width \in 1..MaxSize, height \in 1..MaxSize :
       \E x \in 0..width, y \in 0..height :
         LET e == [x |-> x, y |-> y, width |-> width, height |-> height]
             ms == Listening(listeners, "mousemove")
         IN /\ style' = Dispatch(listeners, "mousemove", style, e)
            /\ pointer' = IF ms = {} THEN <<>>
                          ELSE <<[dx |-> Rat(2 * x - width, width),
                                  dy |-> Rat(2 * y - height, height),
                                  max |-> listeners[CHOOSE i \in ms :
                                            \A j \in ms : j <= i].options.max]>>
  /\ lastEvent' = "mousemove"
  /\ UNCHANGED <<tiltOptions, element, prefersReducedMotion, listeners,
                 tiltCleanup, tiltEffectPending, tiltMounted>>
  /\ UNCHANGED <<typingVars, counterVars, themeVars, pageVars>>

\* A mouseleave is dispatched at the element.
MouseLeave ==
  /\ style' = Dispatch(listeners, "mouseleave", style, <<>>)
  /\ lastEvent' = "mouseleave"
  /\ pointer' = <<>>
  /\ UNCHANGED <<tiltOptions, element, prefersReducedMotion, listeners,
                 tiltCleanup, tiltEffectPending, tiltMounted>>
  /\ UNCHANGED <<typingVars, counterVars, themeVars, pageVars>>

\* The component unmounts: a pending effect is flushed, then the cleanup of
\* the last run is executed.
TiltUnmount ==
  /\ tiltMounted
  /\ tiltMounted' = FALSE
  /\ LET r == IF tiltEffectPending
                THEN TiltEffectRun(tiltOptions, listeners, tiltCleanup, style)
                ELSE [listeners |-> listeners, cleanup |-> tiltCleanup,
                      style |-> style]
     IN /\ listeners' = TiltCleanupRun(r.listeners, r.cleanup)
        /\ style' = r.style
  /\ tiltCleanup' = <<>>
  /\ tiltEffectPending' = FALSE
  /\ UNCHANGED <<tiltOptions, element, prefersReducedMotion, lastEvent,
                 pointer>>
  /\ UNCHANGED <<typingVars, counterVars, themeVars, pageVars>>

TiltNext ==
  \/ TiltEffect \/ TiltRerender \/ MouseMove \/ MouseLeave \/ TiltUnmount

(***************************************************************************)
(* ProtectedRoute (specialized/ProtectedRoute.tsx).  The component keeps   *)
(* no state: each render reads its props and window.location.              *)
(***************************************************************************)
Paths == {"/", "/login", "/admin"}

RouteTypes == {"chapter", "admin"}

\* An optional prop that is not passed is <<>>, else <<v>>.
Default(prop, value) == IF prop = <<>> THEN value ELSE prop[1]

RouteProps ==
  [type : RouteTypes, isAuthenticated : BOOLEAN,
   isLoading : {<<>>, <<FALSE>>, <<TRUE>>},
   redirectPath : {<<>>} \cup {<<p>> : p \in Paths}]

\* A ProtectedRoute that does not look at isLoading.
ProtectedRouteIgnoresLoading(props, href) ==
  IF ~props.isAuthenticated
    THEN [rendered |-> "null",
          location |-> Default(props.redirectPath, "/")]
    ELSE [rendered |-> "children", location |-> href]

\* One render (lines 57-83): what is returned, and window.location.href
\* after it.
ProtectedRoute(props, href) ==
  LET loading == Default(props.isLoading, FALSE)                   \* 61
      path == Default(props.redirectPath, "/")                     \* 62
  IN IF loading                                                    \* 66
       THEN [rendered |-> "spinner", location |-> href]
       ELSE IF ~props.isAuthenticated                              \* 75
              THEN [rendered |-> "null", location |-> path]        \* 77-79
              ELSE [rendered |-> "children", location |-> href]    \* 82

\* The parent renders the route with some props.
RouteRender ==
  /\ \E props \in RouteProps :
       LET out == ProtectedRoute(props, location)
       IN /\ isAuthenticated' = props.isAuthenticated
          /\ isLoading' = Default(props.isLoading, FALSE)
          /\ redirectPath' = Default(props.redirectPath, "/")
          /\ routeType' = props.type
          /\ rendered' = out.rendered
          /\ location' = out.location
  /\ UNCHANGED <<menuVars, boundaryVars>>
  /\ UNCHANGED <<typingVars, counterVars, themeVars, tiltVars>>

(***************************************************************************)
(* Header, mobile menu (src/unnamed/part_015, lines 223-411).  Clicks and  *)
(* key presses are discrete events: React 18 renders their updates and     *)
(* runs the effects of that render before the next event is dispatched, so *)
(* each event is one step.  The focus trap is modelled by the attachment   *)
(* of its listener only.                                                   *)
(***************************************************************************)
Keys == {"Escape", "Tab", "Enter"}

ScrollPositions == {0, 20, 21}

\* handleEscape (lines 246-250); l.open is the isMobileMenuOpen of the
\* render whose effect attached the listener.
HandleEscape(l, key, open) ==
  IF key = "Escape" /\ l.open THEN FALSE ELSE open

\* A keydown at document runs its listeners in the order they were attached.
RECURSIVE DispatchKeydown(_, _, _)
DispatchKeydown(ls, key, open) ==
  IF ls = <<>> THEN open
  ELSE DispatchKeydown(Tail(ls), key, HandleEscape(Head(ls), key, open))

\* An Escape effect that returns no cleanup.
EscapeEffectNoCleanup(prev, open, ls) ==
  IF open = prev THEN ls
  ELSE IF open THEN Append(ls, [open |-> open]) ELSE ls

\* The Escape effect (lines 245-256) after a render that changed
\* isMobileMenuOpen from prev to open: the cleanup of the previous run, then
\* the new run.
EscapeEffect(prev, open, ls) ==
  IF open = prev THEN ls
  ELSE LET cleaned == IF prev THEN RemoveListener(ls, [open |-> prev])
                      ELSE ls                                      \* 254
       IN IF open THEN Append(cleaned, [open |-> open])            \* 252-253
          ELSE cleaned

\* The focus trap effect (lines 259-292): the menu element exists exactly
\* in the renders with isMobileMenuOpen.
FocusTrapEffect(prev, open, ls) ==
  IF open = prev THEN ls
  ELSE LET cleaned == IF prev THEN RemoveListener(ls, [trap |-> TRUE])
                      ELSE ls                                      \* 291
       IN IF open THEN Append(cleaned, [trap |-> TRUE])            \* 290
          ELSE cleaned

\* setIsMobileMenuOpen(open), the render and the effects that follow.
SetIsMobileMenuOpen(open) ==
  /\ isMobileMenuOpen' = open
  /\ escapeListeners' = EscapeEffect(isMobileMenuOpen, open, escapeListeners)
  /\ tabListeners' = FocusTrapEffect(isMobileMenuOpen, open, tabListeners)

HeaderMount ==
  /\ ~headerMounted
  /\ headerMounted' = TRUE
  /\ isScrolled' = FALSE                                           \* 224
  /\ isMobileMenuOpen' = FALSE                                     \* 225
  /\ scrollListeners' = Append(scrollListeners, [kind |-> "scroll"]) \* 240
  /\ escapeListeners' = EscapeEffect(FALSE, FALSE, escapeListeners)
  /\ tabListeners' = FocusTrapEffect(FALSE, FALSE, tabListeners)
  /\ menuEvent' = [kind |-> "mount", wasOpen |-> FALSE]
  /\ UNCHANGED <<routeVars, boundaryVars>>
  /\ UNCHANGED <<typingVars, counterVars, themeVars, tiltVars>>

\* The menu button (line 367).
ToggleClick ==
  /\ headerMounted
  /\ SetIsMobileMenuOpen(~isMobileMenuOpen)
  /\ menuEvent' = [kind |-> "toggle", wasOpen |-> isMobileMenuOpen]
  /\ UNCHANGED <<isScrolled, scrollListeners, headerMounted>>
  /\ UNCHANGED <<routeVars, boundaryVars>>
  /\ UNCHANGED <<typingVars, counterVars, themeVars, tiltVars>>

\* The overlay (line 383) exists only while the menu is open (line 379).
OverlayClick ==
  /\ headerMounted /\ isMobileMenuOpen
  /\ SetIsMobileMenuOpen(FALSE)
  /\ menuEvent' = [kind |-> "overlay", wasOpen |-> isMobileMenuOpen]
  /\ UNCHANGED <<isScrolled, scrollListeners, headerMounted>>
  /\ UNCHANGED <<routeVars, boundaryVars>>
  /\ UNCHANGED <<typingVars, counterVars, themeVars, tiltVars>>

\* scrollToSection (lines 294-299), called by the logo, the desktop items
\* and the items of the menu.
NavItemSelect ==
  /\ headerMounted
  /\ SetIsMobileMenuOpen(FALSE)                                    \* 295
  /\ menuEvent' = [kind |-> "nav", wasOpen |-> isMobileMenuOpen]
  /\ UNCHANGED <<isScrolled, scrollListeners, headerMounted>>
  /\ UNCHANGED <<routeVars, boundaryVars>>
  /\ UNCHANGED <<typingVars, counterVars, themeVars, tiltVars>>

\* A key is pressed somewhere in the document.  A state update of an
\* unmounted component is dropped.
KeydownOf(key) ==
  /\ SetIsMobileMenuOpen(
       IF headerMounted
         THEN DispatchKeydown(escapeListeners, key, isMobileMenuOpen)
         ELSE isMobileMenuOpen)
  /\ menuEvent' = [kind |-> key, wasOpen |-> isMobileMenuOpen]
  /\ UNCHANGED <<isScrolled, scrollListeners, headerMounted>>
  /\ UNCHANGED <<routeVars, boundaryVars>>
  /\ UNCHANGED <<typingVars, counterVars, themeVars, tiltVars>>

Keydown == \E key \in Keys : KeydownOf(key)

\* The window is scrolled (handleScroll, lines 236-238).
Scroll ==
  /\ \E scrollY \in ScrollPositions :
       isScrolled' = IF headerMounted /\ scrollListeners # <<>>
                       THEN scrollY > 20
                       ELSE isScrolled
  /\ menuEvent' = [kind |-> "scroll", wasOpen |-> isMobileMenuOpen]
  /\ UNCHANGED <<isMobileMenuOpen, escapeListeners, tabListeners,
                 scrollListeners, headerMounted>>
  /\ UNCHANGED <<routeVars, boundaryVars>>
  /\ UNCHANGED <<typingVars, counterVars, themeVars, tiltVars>>

\* Unmount runs the cleanup of every effect; the state is gone.
HeaderUnmount ==
  /\ headerMounted
  /\ headerMounted' = FALSE
  /\ SetIsMobileMenuOpen(FALSE)
  /\ isScrolled' = FALSE
  /\ scrollListeners' = RemoveListener(scrollListeners, [kind |-> "scroll"])
  /\ menuEvent' = [kind |-> "unmount", wasOpen |-> isMobileMenuOpen]
  /\ UNCHANGED <<routeVars, boundaryVars>>
  /\ UNCHANGED <<typingVars, counterVars, themeVars, tiltVars>>

\* A page with a ProtectedRoute and a Header, before their first render.
PageInit ==
  \* no TypingAnimation on the page
  /\ texts = <<>> /\ currentTextIndex = 0 /\ currentText = <<>>
  /\ isDeleting = FALSE /\ isPaused = FALSE /\ timers = <<>>
  /\ cleanup = {} /\ effectPending = FALSE /\ mounted = FALSE
  /\ threw = FALSE
  \* no AnimatedCounter on the page
  /\ end = 0 /\ duration = 1 /\ count = 0 /\ hasAnimated = FALSE
  /\ queuedCount = <<>> /\ queuedHasAnimated = FALSE /\ observer = <<>>
  /\ frames = <<>> /\ now = 0 /\ counterEffectPending = FALSE
  /\ counterMounted = FALSE /\ finished = FALSE /\ animations = 0
  /\ signals = "none"
  \* no ThemeProvider and no theme consumer on the page
  /\ stored = <<>> /\ storageAccess = "ok" /\ prefersDark = FALSE
  /\ theme = "light" /\ themeMounted = FALSE /\ queuedTheme = <<>>
  /\ queuedMounted = FALSE /\ rootDark = FALSE
  /\ themeEffectPending = FALSE /\ provider = "absent"
  /\ themeThrew = FALSE /\ observed = <<>> /\ mutated = FALSE
  /\ writer = "other" /\ toggleRun = 0 /\ toggleOrigin = "light"
  \* no element with useTilt on the page
  /\ tiltOptions = [max |-> 0, scale |-> 100, glare |-> FALSE]
  /\ element = FALSE /\ prefersReducedMotion = FALSE /\ listeners = <<>>
  /\ tiltCleanup = <<>> /\ style = UnsetStyle /\ tiltEffectPending = FALSE
  /\ tiltMounted = FALSE /\ lastEvent = "none" /\ pointer = <<>>
  /\ isAuthenticated = FALSE /\ isLoading = FALSE /\ redirectPath = "/"
  /\ routeType = "admin" /\ location \in Paths /\ rendered = "nothing"
  /\ isMobileMenuOpen = FALSE /\ isScrolled = FALSE
  /\ escapeListeners = <<>> /\ tabListeners = <<>>
  /\ scrollListeners = <<>> /\ headerMounted = FALSE
  /\ menuEvent = [kind |-> "none", wasOpen |-> FALSE]
  \* no ErrorBoundary on the page
  /\ hasError = FALSE /\ error = <<>> /\ errorInfo = <<>>
  /\ errorId = <<>> /\ copied = FALSE /\ copyTimers = 0
  /\ fallback = FALSE /\ errorsCaught = 0 /\ boundaryMounted = FALSE
  /\ boundaryEvent = <<"none">>

PageNext ==
  \/ RouteRender \/ HeaderMount \/ ToggleClick \/ OverlayClick
  \/ NavItemSelect \/ Keydown \/ Scroll \/ HeaderUnmount

(***************************************************************************)
(* ErrorBoundary (specialized/ErrorBoundary.tsx).                          *)
(***************************************************************************)
MaxErrors == 2

MaxTimers == 2

Errors == {"e1", "e2"}

\* `ERR-${Date.now()}-${random}` (line 72): some string, not known to be
\* a new one.
ErrorIds == {"ERR-1", "ERR-2"}

\* this.state
BoundaryState ==
  [hasError |-> hasError, error |-> error, errorInfo |-> errorInfo,
   errorId |-> errorId, copied |-> copied]

\* getDerivedStateFromError (lines 71-74), merged into the state.
GetDerivedStateFromError(st, e, id) ==
  [st EXCEPT !.hasError = TRUE, !.error = <<e>>, !.errorId = <<id>>,
             !.copied = FALSE]

\* componentDidCatch (lines 76-86): setState({ errorInfo }).
ComponentDidCatch(st, info) == [st EXCEPT !.errorInfo = <<info>>]

\* A handleReset that leaves the error id in place.
HandleResetKeepsErrorId(st) ==
  [st EXCEPT !.hasError = FALSE, !.error = <<>>, !.errorInfo = <<>>,
             !.copied = FALSE]

\* handleReset (lines 88-96).
HandleResetState(st) ==
  [st EXCEPT !.hasError = FALSE, !.error = <<>>, !.errorInfo = <<>>,
             !.errorId = <<>>, !.copied = FALSE]

\* The callback of the timer of handleCopyError (line 110).
CopyTimerState(st) == [st EXCEPT !.copied = FALSE]

\* render (lines 113-209).
BoundaryRender(st, fb) ==
  IF st.hasError                                                   \* 114
    THEN IF fb THEN "fallback" ELSE "default"                      \* 115-116
    ELSE "children"                                                \* 208

\* this.setState and the render that follows.
SetBoundaryState(st) ==
  /\ hasError' = st.hasError
  /\ error' = st.error
  /\ errorInfo' = st.errorInfo
  /\ errorId' = st.errorId
  /\ copied' = st.copied

\* A page with an ErrorBoundary whose children rendered without error.
BoundaryInit ==
  \* no TypingAnimation on the page
  /\ texts = <<>> /\ currentTextIndex = 0 /\ currentText = <<>>
  /\ isDeleting = FALSE /\ isPaused = FALSE /\ timers = <<>>
  /\ cleanup = {} /\ effectPending = FALSE /\ mounted = FALSE
  /\ threw = FALSE
  \* no AnimatedCounter on the page
  /\ end = 0 /\ duration = 1 /\ count = 0 /\ hasAnimated = FALSE
  /\ queuedCount = <<>> /\ queuedHasAnimated = FALSE /\ observer = <<>>
  /\ frames = <<>> /\ now = 0 /\ counterEffectPending = FALSE
  /\ counterMounted = FALSE /\ finished = FALSE /\ animations = 0
  /\ signals = "none"
  \* no ThemeProvider and no theme consumer on the page
  /\ stored = <<>> /\ storageAccess = "ok" /\ prefersDark = FALSE
  /\ theme = "light" /\ themeMounted = FALSE /\ queuedTheme = <<>>
  /\ queuedMounted = FALSE /\ rootDark = FALSE
  /\ themeEffectPending = FALSE /\ provider = "absent"
  /\ themeThrew = FALSE /\ observed = <<>> /\ mutated = FALSE
  /\ writer = "other" /\ toggleRun = 0 /\ toggleOrigin = "light"
  \* no element with useTilt on the page
  /\ tiltOptions = [max |-> 0, scale |-> 100, glare |-> FALSE]
  /\ element = FALSE /\ prefersReducedMotion = FALSE /\ listeners = <<>>
  /\ tiltCleanup = <<>> /\ style = UnsetStyle /\ tiltEffectPending = FALSE
  /\ tiltMounted = FALSE /\ lastEvent = "none" /\ pointer = <<>>
  \* no ProtectedRoute and no Header on the page
  /\ isAuthenticated = FALSE /\ isLoading = FALSE /\ redirectPath = "/"
  /\ routeType = "admin" /\ location = "/" /\ rendered = "nothing"
  /\ isMobileMenuOpen = FALSE /\ isScrolled = FALSE
  /\ escapeListeners = <<>> /\ tabListeners = <<>>
  /\ scrollListeners = <<>> /\ headerMounted = FALSE
  /\ menuEvent = [kind |-> "none", wasOpen |-> FALSE]
  /\ hasError = FALSE /\ error = <<>> /\ errorInfo = <<>>          \* 68
  /\ errorId = <<>> /\ copied = FALSE /\ copyTimers = 0
  /\ fallback \in BOOLEAN /\ errorsCaught = 0 /\ boundaryMounted = TRUE
  /\ boundaryEvent = <<"none">>

\* A child throws while rendering: getDerivedStateFromError, then
\* componentDidCatch in the commit.
ChildThrows ==
  /\ boundaryMounted /\ BoundaryRender(BoundaryState, fallback) = "children"
  /\ errorsCaught < MaxErrors
  /\ \E e \in Errors, id \in ErrorIds :
       SetBoundaryState(
         ComponentDidCatch(
           GetDerivedStateFromError(BoundaryState, e, id),
           [componentStack |-> e]))
  /\ errorsCaught' = errorsCaught + 1
  /\ boundaryEvent' = <<"error">>
  /\ UNCHANGED <<copyTimers, fallback, boundaryMounted>>
  /\ UNCHANGED <<routeVars, menuVars>>
  /\ UNCHANGED <<typingVars, counterVars, themeVars, tiltVars>>

\* "Try Again" (line 158) is a button of the default error UI.
HandleReset ==
  /\ boundaryMounted /\ BoundaryRender(BoundaryState, fallback) = "default"
  /\ SetBoundaryState(HandleResetState(BoundaryState))
  /\ boundaryEvent' = <<"reset">>
  /\ UNCHANGED <<copyTimers, fallback, errorsCaught, boundaryMounted>>
  /\ UNCHANGED <<routeVars, menuVars>>
  /\ UNCHANGED <<typingVars, counterVars, themeVars, tiltVars>>

\* handleCopyError (lines 98-111).  The copy button is rendered in the
\* default error UI when there is an error id (line 133).  Where
\* navigator.clipboard is missing line 108 throws and nothing is set.
HandleCopyError ==
  /\ boundaryMounted /\ BoundaryRender(BoundaryState, fallback) = "default"
  /\ errorId # <<>>
  /\ copyTimers < MaxTimers
  /\ \E clipboard \in BOOLEAN :
       IF clipboard
         THEN /\ SetBoundaryState([BoundaryState EXCEPT !.copied = TRUE])
              /\ copyTimers' = copyTimers + 1                      \* 110
              /\ boundaryEvent' = <<"copy">>
         ELSE /\ SetBoundaryState(BoundaryState)
              /\ copyTimers' = copyTimers
              /\ boundaryEvent' = <<"copy failed">>
  /\ UNCHANGED <<fallback, errorsCaught, boundaryMounted>>
  /\ UNCHANGED <<routeVars, menuVars>>
  /\ UNCHANGED <<typingVars, counterVars, themeVars, tiltVars>>

\* A timer of handleCopyError fires; nothing ever clears it.  A state
\* update of an unmounted component is dropped.
CopyTimerFires ==
  /\ copyTimers > 0
  /\ copyTimers' = copyTimers - 1
  /\ SetBoundaryState(IF boundaryMounted THEN CopyTimerState(BoundaryState)
                      ELSE BoundaryState)
  /\ boundaryEvent' = <<"timer", boundaryEvent[1]>>
  /\ UNCHANGED <<fallback, errorsCaught, boundaryMounted>>
  /\ UNCHANGED <<routeVars, menuVars>>
  /\ UNCHANGED <<typingVars, counterVars, themeVars, tiltVars>>

BoundaryUnmount ==
  /\ boundaryMounted
  /\ boundaryMounted' = FALSE
  /\ boundaryEvent' = <<"unmount">>
  /\ UNCHANGED <<hasError, error, errorInfo, errorId, copied, copyTimers,
                 fallback, errorsCaught>>
  /\ UNCHANGED <<routeVars, menuVars>>
  /\ UNCHANGED <<typingVars, counterVars, themeVars, tiltVars>>

BoundaryNext ==
  \/ ChildThrows \/ HandleReset \/ HandleCopyError \/ CopyTimerFires
  \/ BoundaryUnmount

(***************************************************************************)
(* Specifications: one component on the page at a time.                    *)
(***************************************************************************)
TypingSpec == TypingInit /\ [][TypingNext]_vars

CounterSpec == CounterInit /\ [][CounterNext]_vars

ThemeSpec == ThemeInit /\ [][ThemeNext]_vars

TiltSpec == TiltInit /\ [][TiltNext]_vars

PageSpec == PageInit /\ [][PageNext]_vars

BoundarySpec == BoundaryInit /\ [][BoundaryNext]_vars

\* Liveness: the props are stable (the parent does not render again, so no
\* pending timer is reset before it can fire), the scheduler runs every
\* pending effect and every pending timer fires.
TypingStableNext == RunEffect \/ TimerFires \/ Unmount

TypingFairSpec ==
  /\ TypingInit /\ [][TypingStableNext]_vars
  /\ WF_vars(RunEffect) /\ WF_vars(TimerFires)

(***************************************************************************)
(* TypingAnimation: properties.                                            *)
(***************************************************************************)
Phase ==
  IF isPaused THEN "Paused" ELSE IF isDeleting THEN "Deleting" ELSE "Typing"

RenderedState == <<currentTextIndex, currentText, isDeleting, isPaused>>

IndexInRange == currentTextIndex + 1 \in DOMAIN texts

RenderedPrefix ==
  IndexInRange /\ IsPrefix(currentText, texts[currentTextIndex + 1])

LengthMonotone ==
  /\ (~isDeleting \/ ~isDeleting') => Len(currentText') >= Len(currentText)
  /\ (isDeleting \/ isDeleting') => Len(currentText') <= Len(currentText)

\* C1: for a non-empty texts list the rendered currentText is, in every
\* reachable state, a prefix of texts[currentTextIndex]; across every step
\* its length does not decrease while isDeleting is false and does not
\* increase while isDeleting is true.
C1_PrefixAndMonotoneLength ==
  /\ [](texts # <<>> => RenderedPrefix)
  /\ [][texts # <<>> => LengthMonotone]_vars

\* Witness of C1: the second string is being deleted, part of it still
\* rendered.
C1_Witness ==
  /\ mounted /\ isDeleting /\ currentTextIndex = 1
  /\ currentText # <<>> /\ currentText # texts[2]

\* One step of the phase machine Typing -> Paused -> Deleting -> Typing(next).
PhaseStep ==
  LET full == CurrentFullText(Hooks) IN
  \/ UNCHANGED RenderedState
  \/ /\ Phase = "Typing" /\ Phase' = "Typing"
     /\ currentText # full
     /\ currentText' = Slice(full, Len(currentText) + 1)
     /\ Len(currentText') = Len(currentText) + 1
     /\ currentTextIndex' = currentTextIndex
  \/ /\ Phase = "Typing" /\ Phase' = "Paused"
     /\ currentText = full
     /\ UNCHANGED <<currentText, currentTextIndex>>
  \/ /\ Phase = "Paused" /\ Phase' = "Deleting"
     /\ currentText = full
     /\ UNCHANGED <<currentText, currentTextIndex>>
  \/ /\ Phase = "Deleting" /\ Phase' = "Deleting"
     /\ currentText # <<>>
     /\ currentText' = Slice(currentText, -1)
     /\ Len(currentText') = Len(currentText) - 1
     /\ currentTextIndex' = currentTextIndex
  \/ /\ Phase = "Deleting" /\ Phase' = "Typing"
     /\ currentText = <<>> /\ currentText' = <<>>
     /\ currentTextIndex' = (currentTextIndex + 1) % Len(texts)

\* C2: the animation starts in Typing at index 0 with nothing rendered, and
\* every change of the rendered state is one step of the cycle: the text
\* grows by one character of the current string, the full string enters
\* Paused, Paused is left only for Deleting with the full string still
\* rendered, the text shrinks by one character, and only from the empty text
\* does the next index start Typing.
C2_PhaseOrder ==
  /\ (Phase = "Typing" /\ currentTextIndex = 0 /\ currentText = <<>>)
  /\ [][PhaseStep]_vars

\* Witness of C2: after a full cycle of a non-empty first string, the second
\* string is being typed.
C2_Witness ==
  /\ mounted /\ Phase = "Typing" /\ currentTextIndex = 1
  /\ texts[1] # <<>> /\ currentText # <<>>

IndexStep ==
  currentTextIndex' # currentTextIndex =>
    /\ isDeleting /\ currentText = <<>>
    /\ currentTextIndex' = (currentTextIndex + 1) % Len(texts)

C4_FlagsExclusive == ~(isPaused /\ isDeleting)

\* Witness of C4: the pause callback has just run (full non-empty string
\* rendered, now deleting, the effect of that render still pending).
C4_Witness ==
  /\ mounted /\ isDeleting /\ ~isPaused /\ effectPending
  /\ IndexInRange /\ currentText = texts[currentTextIndex + 1]
  /\ currentText # <<>>

StateUnchanged == UNCHANGED RenderedState

\* C5 as stated: at most one timer is pending in every reachable state, and
\* every timer callback that runs performs exactly one state transition.
C5_Original ==
  /\ [](Len(timers) <= 1)
  /\ [][TimerFires => ~StateUnchanged]_vars

\* What one callback may change: the pause callback the two flags, the
\* typing and deleting callbacks the text.
CallbackFootprint ==
  \/ StateUnchanged
  \/ /\ isPaused /\ ~isPaused' /\ isDeleting'
     /\ UNCHANGED <<currentText, currentTextIndex>>
  \/ /\ currentText' # currentText
     /\ UNCHANGED <<currentTextIndex, isDeleting, isPaused>>

\* C5 amended: at most one timer is pending in every reachable state (each
\* effect run clears the timer of the previous run before it schedules one),
\* and every timer callback that runs performs at most one state transition.
C5_OnePendingTimer ==
  /\ [](Len(timers) <= 1)
  /\ [][TimerFires => CallbackFootprint]_vars

\* Witness of C5: a timer scheduled by an earlier effect run (its closure
\* holds an older text) is still pending while the effect of the latest
\* render is about to run: the run must clear it before it schedules.
C5_Witness ==
  /\ mounted /\ effectPending /\ Len(timers) = 1
  /\ timers[1].kind = "type" /\ timers[1].text # currentText

\* C6: once the component is unmounted no timer is pending (so no callback
\* can fire), and the rendered state never changes again.
C6_TeardownSafe ==
  /\ [](~mounted => timers = <<>>)
  /\ [][~mounted => (StateUnchanged /\ ~TimerFires)]_vars

\* Witness of C6: unmounted while deleting, part of the string rendered.
C6_Witness == ~mounted /\ isDeleting /\ currentText # <<>>

\* C7: with an empty texts list no timer is ever scheduled and no timer
\* callback throws.
C7_EmptyListRejected == texts = <<>> => (timers = <<>> /\ ~threw)

FullyRendered(i) ==
  currentTextIndex + 1 = i /\ currentText = texts[i] /\ isPaused

\* C8: for a non-empty texts list, while the component stays mounted and
\* its timers and effects run, every string of the list is fully rendered
\* (held in Paused) again and again, and so is the deleting phase: the
\* animation never stops.
C8_CyclesForever ==
  /\ \A i \in 1..MaxTexts :
       []<>(~mounted \/ i > Len(texts) \/ FullyRendered(i))
  /\ []<>(~mounted \/ texts = <<>> \/ isDeleting)

\* Witness of C8: a list whose first string is empty; its second string is
\* fully rendered.
C8_Witness ==
  /\ mounted /\ Len(texts) = 2 /\ texts[1] = <<>> /\ texts[2] # <<>>
  /\ FullyRendered(2)


(***************************************************************************)
(* AnimatedCounter: properties.                                            *)
(***************************************************************************)
\* C9: once a frame has run at elapsed time >= duration, no frame remains
\* requested, and the displayed count, once rendered, equals end exactly
\* (and so never changes afterwards).
C9_SnapsToEnd ==
  finished =>
    /\ frames = <<>>
    /\ (counterMounted /\ queuedCount = <<>>) => count = end

\* C10: the displayed count never decreases when end > 0 (the start value)
\* and never increases when end < 0.
C10_Monotone ==
  [][/\ end > 0 => count' >= count
     /\ end < 0 => count' <= count]_vars

\* C11: once hasAnimated is true (committed), no visibility signal starts
\* another animation: animateCounter is not called again.
C11_NeverRestarts == [][hasAnimated => animations' = animations]_vars

\* C12: animateCounter is invoked at most once in the lifetime of an
\* instance, whatever entries the observer delivers and whenever.
C12_AtMostOneLoop == animations <= 1

\* C13: until the first intersecting entry has been delivered the displayed
\* count is 0, no setCount is queued, animateCounter has not been called
\* and no frame is requested; a step that changes the requested frames
\* happens only with or after that entry.
C13_DefersUntilVisible ==
  /\ [](signals # "visible" =>
         (count = 0 /\ queuedCount = <<>> /\ frames = <<>> /\ animations = 0))
  /\ [][frames' # frames => signals' = "visible"]_vars

\* Witness of C13: the observer is connected, it has delivered entries but
\* none intersecting, time has passed, and nothing has started.
C13_Witness ==
  /\ counterMounted /\ observer # <<>> /\ signals = "hidden" /\ now > 0
  /\ count = 0 /\ frames = <<>>

\* C14: once the component is unmounted no updateCounter callback remains
\* requested (so none runs and none calls setCount).
C14_FrameLoopRevoked == ~counterMounted => frames = <<>>

(***************************************************************************)
(* ThemeProvider and useTheme: properties.                                 *)
(***************************************************************************)
\* The initial theme with every persisted value taken as present.
PersistedFirst ==
  IF stored # <<>> THEN stored[1] ELSE IF prefersDark THEN "dark" ELSE "light"

\* The initial theme with an empty string taken as absent.
NonEmptyPersistedFirst ==
  IF stored # <<>> /\ stored[1] # "" THEN stored[1]
  ELSE IF prefersDark THEN "dark" ELSE "light"

\* The provider shows its children and nothing was set since the page load.
FreshlyInitialized == ContextValue # <<>> /\ ~mutated

\* setTheme('dark') followed by a fresh initialization yields 'dark'.
DarkRoundTrip ==
  (FreshlyInitialized /\ writer = "page" /\ stored = <<"dark">>)
    => theme = "dark"

\* C15 as stated: the initialization resolves the persisted value whenever
\* one is present in storage, whatever the system preference, and the
\* system preference ('dark' if preferred, else 'light') only when none is
\* persisted; setTheme('dark') followed by a fresh initialization yields
\* 'dark'.
C15_Original ==
  /\ [][(ThemeEffect /\ provider' = "present")
          => queuedTheme' = <<PersistedFirst>>]_vars
  /\ [](FreshlyInitialized /\ stored # <<>> => theme = stored[1])
  /\ []DarkRoundTrip

\* C15 amended: the initialization resolves the persisted value whenever a
\* non-empty one is present in storage, whatever the system preference; when
\* none is persisted or the persisted value is the empty string it resolves
\* 'dark' if the system prefers dark and 'light' otherwise; setTheme('dark')
\* followed by a fresh initialization yields 'dark'.
C15_InitOrder ==
  /\ [][(ThemeEffect /\ provider' = "present")
          => queuedTheme' = <<NonEmptyPersistedFirst>>]_vars
  /\ []((FreshlyInitialized /\ stored # <<>> /\ stored[1] # "")
          => theme = stored[1])
  /\ []DarkRoundTrip

\* Witness of C15: 'dark' was persisted by setTheme, the page was loaded
\* again with a system preference for light, and the provider shows 'dark'.
C15_Witness ==
  /\ FreshlyInitialized /\ writer = "page" /\ stored = <<"dark">>
  /\ ~prefersDark /\ theme = "dark" /\ rootDark

\* C16: after two toggleTheme calls in succession (storage working) the
\* in-memory theme, the persisted value and the root marker are those of
\* the theme before the first call, whether or not the provider rendered
\* between the calls.
C16_DoubleToggleRestores ==
  (storageAccess = "ok" /\ toggleRun = 2) =>
    /\ LatestTheme = toggleOrigin
    /\ stored = <<toggleOrigin>>
    /\ rootDark = (toggleOrigin = "dark")

\* C17: in every state after a setTheme/toggleTheme call (storage working)
\* the theme of the context value, the persisted value and the root marker
\* agree.
C17_Atomic ==
  (storageAccess = "ok" /\ ContextValue # <<>> /\ mutated) =>
    /\ stored = <<ContextValue[1].theme>>
    /\ rootDark = (ContextValue[1].theme = "dark")

\* C18: the theme exposed to consumers is 'light' or 'dark' in every state,
\* whatever value was found in storage, and every value the provider
\* persists is 'light' or 'dark'.
C18_ThemeIsEnum ==
  /\ ContextValue # <<>> => ContextValue[1].theme \in Themes
  /\ writer = "page" => stored \in {<<t>> : t \in Themes}

\* C19: what useTheme gave the consumer is the error 'useTheme must be used
\* within a ThemeProvider' when no provider is above it, and the provider's
\* context value (never an error) under a mounted provider.
C19_UseThemeGuard ==
  observed # <<>> =>
    observed[1] = (IF provider = "absent" THEN ThemeError
                                          ELSE [theme |-> theme])

\* Witness of C19: a consumer outside any provider rendered and useTheme
\* threw.
C19_Witness == provider = "absent" /\ observed = <<ThemeError>>

\* C20: with storage denied or refusing writes, no exception leaves the
\* mount effect, setTheme or toggleTheme, the provider stays in the tree,
\* and after a mutation the root marker follows the in-memory theme.
C20_GracefulStorageFailure ==
  storageAccess # "ok" =>
    /\ ~themeThrew
    /\ provider # "crashed"
    /\ mutated => rootDark = (LatestTheme = "dark")

\* The provider is in the tree and its initialization has not completed
\* (the render with mounted = true has not been committed).
BeforeInitialization == provider = "present" /\ ~themeMounted

\* C21: a consumer invoked before the provider's initialization has
\* completed received the fallback theme 'light' (no error, nothing
\* undefined).
C21_FallbackBeforeInit ==
  (BeforeInitialization /\ observed # <<>>) => observed = <<[theme |-> "light"]>>

\* The case of C21: a consumer was invoked before the initialization
\* completed.
C21_Case == BeforeInitialization /\ observed # <<>>

\* C29: the item 'theme' changes only in a setTheme or toggleTheme call: the
\* mount effect, renders and page loads leave it as it was, so an absent
\* item stays absent until the first such call.
C29_OnlyMutationsPersist ==
  /\ [][stored' # stored => (CallSetTheme \/ CallToggleTheme)]_vars
  /\ []((writer = "other" /\ stored = <<>>) => ~(mutated /\ storageAccess = "ok"))

\* Witness of C29: the provider initialized from the system preference
\* (dark), shows its children, and the item is still absent.
C29_Witness ==
  /\ FreshlyInitialized /\ stored = <<>> /\ prefersDark /\ theme = "dark"
  /\ rootDark /\ observed = <<[theme |-> "dark"]>>

\* C30: no consumer is invoked while the provider is not initialized, and
\* the first value a consumer below the provider gets is the theme the mount
\* effect resolved, with the root marker matching it.
C30_NoPlaceholderObserved ==
  /\ [](BeforeInitialization => observed = <<>>)
  /\ [][(provider = "present" /\ observed = <<>> /\ observed' # <<>>) =>
          /\ queuedTheme # <<>>
          /\ observed' = <<[theme |-> queuedTheme[1]]>>
          /\ rootDark' = (queuedTheme[1] = "dark")]_vars
  /\ []((FreshlyInitialized /\ stored # <<>> /\ stored[1] # "")
          => observed = <<[theme |-> stored[1]]>>)

\* Witness of C30: the persisted theme is 'dark', the system prefers light,
\* and the consumer's first observation is 'dark' with the marker set.
C30_Witness ==
  /\ FreshlyInitialized /\ stored = <<"dark">> /\ ~prefersDark
  /\ observed = <<[theme |-> "dark"]>> /\ rootDark /\ writer = "other"

LeaveHandled == MouseLeave /\ Listening(listeners, "mouseleave") # {}

\* C23 as stated: after a mouseleave the hook handled, whatever preceded
\* it, the transform is rotateX = 0, rotateY = 0, scale = 1 and the glare
\* position is (50%, 50%).
C23_Original ==
  [][LeaveHandled =>
       /\ style'.transform = <<IdentityTransform>>
       /\ style'.glareX = <<Rat(50, 1)>>
       /\ style'.glareY = <<Rat(50, 1)>>]_vars

\* C23 amended: after a mouseleave the hook handled, whatever preceded it,
\* the transform is rotateX = 0, rotateY = 0, scale = 1; the glare position
\* is (50%, 50%) when the glare option is enabled, and is left as it was
\* when the option is disabled.
C23_ResetOnLeave ==
  [][LeaveHandled =>
       /\ style'.transform = <<IdentityTransform>>
       /\ \A i \in Listening(listeners, "mouseleave") :
            IF listeners[i].options.glare
              THEN /\ style'.glareX = <<Rat(50, 1)>>
                   /\ style'.glareY = <<Rat(50, 1)>>
              ELSE /\ style'.glareX = style.glareX
                   /\ style'.glareY = style.glareY]_vars

\* Witness of C23: a mouseleave was handled with glare disabled after a
\* mousemove with glare enabled: the transform is reset, the glare position
\* is still the one of that mousemove.
C23_Witness ==
  /\ tiltMounted /\ lastEvent = "mouseleave"
  /\ style.transform = <<IdentityTransform>>
  /\ style.glareX = <<Rat(100, 1)>> /\ style.glareY = <<Rat(0, 1)>>

\* C24: under prefers-reduced-motion no listener of the hook is attached
\* and the element's transform, transition and glare properties are never
\* written, whatever pointer events are dispatched.
C24_ReducedMotionNoOp ==
  prefersReducedMotion => (listeners = <<>> /\ style = UnsetStyle)

\* Witness of C24: under reduced motion the effect has run for an element
\* and a mousemove was dispatched at it.
C24_Witness ==
  /\ prefersReducedMotion /\ element /\ tiltMounted /\ ~tiltEffectPending
  /\ lastEvent = "mousemove"

\* C25: at most one mousemove and one mouseleave listener of the hook are
\* attached at any time; once the effect has run for the current options
\* every attached listener is one of that run; after unmount none is
\* attached and no pointer event changes the element's style.
C25_ListenersDetached ==
  /\ [](/\ Cardinality(Listening(listeners, "mousemove")) <= 1
        /\ Cardinality(Listening(listeners, "mouseleave")) <= 1)
  /\ [](~tiltEffectPending =>
          \A i \in DOMAIN listeners : listeners[i].options = tiltOptions)
  /\ [](~tiltMounted => listeners = <<>>)
  /\ [][~tiltMounted => style' = style]_vars

\* Witness of C25: the component was unmounted while tilted and a mousemove
\* dispatched afterwards was not handled.
C25_Witness ==
  /\ ~tiltMounted /\ lastEvent = "mousemove" /\ pointer = <<>>
  /\ style.transform # <<>> /\ style.transform # <<IdentityTransform>>

(***************************************************************************)
(* ProtectedRoute and Header: properties.                                  *)
(***************************************************************************)
\* C26: after every render, the children are rendered only when isLoading
\* is false and isAuthenticated is true; while isLoading is true the
\* spinner is rendered and that render leaves the location alone, whatever
\* isAuthenticated is; when not loading and not authenticated nothing is
\* rendered and the location is redirectPath.
C26_ChildrenOnlyWhenAuthenticated ==
  /\ [](rendered = "children" => (isAuthenticated /\ ~isLoading))
  /\ []((rendered # "nothing" /\ isLoading) => rendered = "spinner")
  /\ [][(RouteRender /\ isLoading') => location' = location]_vars
  /\ []((rendered # "nothing" /\ ~isLoading /\ ~isAuthenticated) =>
          (rendered = "null" /\ location = redirectPath))
  /\ []((rendered # "nothing" /\ ~isLoading /\ isAuthenticated) =>
          rendered = "children")

\* Witness of C26: an unauthenticated user, not loading, was redirected
\* away from the page to a redirectPath that is not the default, and
\* nothing is rendered.
C26_Witness ==
  /\ rendered = "null" /\ ~isAuthenticated /\ ~isLoading
  /\ redirectPath = "/login" /\ location = "/login"

\* C27: while the Header is mounted exactly one Escape listener is attached
\* to the document when the menu is open and none when it is closed, and
\* none is attached after unmount; an Escape key press, a click on the
\* overlay or the selection of a navigation item while the menu is open
\* closes it; an Escape key press while the menu is closed changes no state
\* of the Header.
C27_MenuCloses ==
  /\ [](Len(escapeListeners) =
          IF headerMounted /\ isMobileMenuOpen THEN 1 ELSE 0)
  /\ [][(/\ headerMounted /\ isMobileMenuOpen
         /\ KeydownOf("Escape") \/ OverlayClick \/ NavItemSelect)
          => (~isMobileMenuOpen' /\ escapeListeners' = <<>>)]_vars
  /\ [][(~isMobileMenuOpen /\ KeydownOf("Escape")) =>
          UNCHANGED <<isMobileMenuOpen, isScrolled, escapeListeners,
                      tabListeners, scrollListeners, headerMounted>>]_vars

\* Witness of C27: Escape was pressed while the menu was open; the menu is
\* closed and the listener is gone.
C27_Witness ==
  /\ menuEvent = [kind |-> "Escape", wasOpen |-> TRUE]
  /\ headerMounted /\ ~isMobileMenuOpen /\ escapeListeners = <<>>

(***************************************************************************)
(* ErrorBoundary: properties.                                              *)
(***************************************************************************)
\* C28: once an error is caught hasError stays true, and the fallback or
\* the default error UI is rendered instead of the children, until
\* handleReset runs; handleReset clears hasError, error, errorInfo, errorId
\* and copied in one step and the children render again; a timer of
\* handleCopyError that fires, also after a reset or a new error, sets
\* copied to false and changes no other field.
C28_ErrorStateUntilReset ==
  /\ [][ChildThrows =>
          (hasError' /\ error' # <<>> /\ errorInfo' # <<>>
           /\ errorId' # <<>>)]_vars
  /\ [][(hasError /\ ~hasError') => HandleReset]_vars
  /\ [](hasError =>
          BoundaryRender(BoundaryState, fallback) \in {"fallback", "default"})
  /\ [][HandleReset =>
          (/\ ~hasError' /\ error' = <<>> /\ errorInfo' = <<>>
           /\ errorId' = <<>> /\ ~copied'
           /\ BoundaryRender(BoundaryState, fallback)' = "children")]_vars
  /\ [](~hasError => (error = <<>> /\ errorInfo = <<>> /\ errorId = <<>>))
  /\ [][CopyTimerFires =>
          (/\ UNCHANGED <<hasError, error, errorInfo, errorId>>
           /\ boundaryMounted => ~copied')]_vars

\* Witness of C28: an error was caught and its details copied, the boundary
\* was reset, a second error was caught, and then the timer of the copy
\* fired: the second error is still shown.
C28_Witness ==
  /\ boundaryEvent = <<"timer", "error">> /\ errorsCaught = 2
  /\ boundaryMounted /\ hasError /\ error # <<>> /\ errorId # <<>>
  /\ ~copied

=============================================================================
